---- MODULE Spec2Model ----
(***************************************************************************)
(* A model of db-bridge: the run_sql dispatcher of the db_bridge package   *)
(* (src/db_bridge/db_utils.py), its predecessor in the dbbridge package    *)
(* (src/dbbridge/db_utils.py) and the get_column_values lookup built on    *)
(* it.  SQL text is a sequence of one-character strings, so that the       *)
(* regular expressions and string methods of the code are computed rather  *)
(* than assumed.  The database driver is the environment: what a cursor    *)
(* call yields is chosen nondeterministically at the step that makes it.   *)
(***************************************************************************)
EXTENDS Integers, Sequences, FiniteSets, TLC

\* ------------------------------------------------------------------------
\* Text: characters, case mapping, the str and re primitives the code uses
\* ------------------------------------------------------------------------

LowerCs == <<"a","b","c","d","e","f","g","h","i","j","k","l","m",
             "n","o","p","q","r","s","t","u","v","w","x","y","z">>

UpperCs == <<"A","B","C","D","E","F","G","H","I","J","K","L","M",
             "N","O","P","Q","R","S","T","U","V","W","X","Y","Z">>

LowerSet == { LowerCs[i] : i \in 1..26 }

UpperSet == { UpperCs[i] : i \in 1..26 }

UpMap == [c \in LowerSet |-> UpperCs[CHOOSE i \in 1..26 : LowerCs[i] = c]]

LowMap == [c \in UpperSet |-> LowerCs[CHOOSE i \in 1..26 : UpperCs[i] = c]]

\* [A-Za-z]
IsLetter(c) == c \in LowerSet \/ c \in UpperSet

\* \s, and the characters str.strip() removes
IsSpace(c) == c \in {" ", "\n", "\t"}

UpChar(c) == IF c \in LowerSet THEN UpMap[c] ELSE c

LowChar(c) == IF c \in UpperSet THEN LowMap[c] ELSE c

\* str.upper()
Upper(s) == [i \in 1..Len(s) |-> UpChar(s[i])]

\* str.lower()
Lower(s) == [i \in 1..Len(s) |-> LowChar(s[i])]

RECURSIVE LStrip(_)
LStrip(s) == IF s # <<>> /\ IsSpace(Head(s)) THEN LStrip(Tail(s)) ELSE s

RECURSIVE RStrip(_)
RStrip(s) == IF s # <<>> /\ IsSpace(s[Len(s)]) THEN RStrip(SubSeq(s, 1, Len(s) - 1)) ELSE s

\* str.strip()
Strip(s) == RStrip(LStrip(s))

\* s[k+1 .. k+Len(w)] = w
MatchAt(s, k, w) == k + Len(w) <= Len(s) /\ \A i \in 1..Len(w) : s[k + i] = w[i]

\* re.match(r'^(w)', s, re.IGNORECASE) for a literal word w
StartsWithCI(s, w) == Len(w) <= Len(s) /\ \A i \in 1..Len(w) : UpChar(s[i]) = UpChar(w[i])

\* re.search(w, s, re.IGNORECASE) for a literal word w
ContainsCI(s, w) ==
    \E k \in 0..(Len(s) - Len(w)) : \A i \in 1..Len(w) : UpChar(s[k + i]) = UpChar(w[i])

\* str.replace(old, new), and re.sub of a literal pattern: leftmost, non-overlapping
RECURSIVE Replace(_, _, _)
Replace(s, old, new) ==
    IF s = <<>> THEN <<>>
    ELSE IF MatchAt(s, 0, old) THEN new \o Replace(SubSeq(s, Len(old) + 1, Len(s)), old, new)
    ELSE <<Head(s)>> \o Replace(Tail(s), old, new)

\* str.split()[0]: the first whitespace-delimited token (<<>> when there is none)
RECURSIVE TakeToken(_)
TakeToken(s) == IF s = <<>> \/ IsSpace(Head(s)) THEN <<>> ELSE <<Head(s)>> \o TakeToken(Tail(s))

FirstToken(s) == TakeToken(LStrip(s))

\* [A-Za-z]+ matched greedily at the head of s
RECURSIVE TakeLetters(_)
TakeLetters(s) == IF s = <<>> \/ ~IsLetter(Head(s)) THEN <<>> ELSE <<Head(s)>> \o TakeLetters(Tail(s))

\* (?:--.*\n\s*)* matched greedily at the head of s: what is left after the
\* comment lines.  A "--" with no newline after it does not match the group.
RECURSIVE SkipComments(_)
SkipComments(s) ==
    IF MatchAt(s, 0, <<"-", "-">>) /\ \E j \in 3..Len(s) : s[j] = "\n"
    THEN LET nl == CHOOSE j \in 3..Len(s) : s[j] = "\n" /\ \A k \in 3..(j - 1) : s[k] # "\n"
         IN  SkipComments(LStrip(SubSeq(s, nl + 1, Len(s))))
    ELSE s

cNone == <<"N","o","n","e">>
cNULL == <<"N","U","L","L">>
cPct  == <<"%","s">>
cQ    == <<"?">>

replace_none_w_null(sql_text) ==
    Strip(Replace(Replace(Replace(sql_text, <<"'">> \o cNone \o <<"'">>, cNULL),
                          <<"\"">> \o cNone \o <<"\"">>, cNULL),
                  cNone, cNULL))

\* ------------------------------------------------------------------------
\* Bounds and the values a call is given
\* ------------------------------------------------------------------------

\* most fragments that follow the leading word of a statement
MaxBody == 2
\* most rows a fetchall yields
MaxRows == 2
\* largest cursor.rowcount
MaxRowCount == 1
\* largest cursor.lastrowid
MaxRowId == 1

wCREATE == <<"C","R","E","A","T","E">>
wDROP   == <<"D","R","O","P">>
wUPDATE == <<"U","P","D","A","T","E">>
wDELETE == <<"D","E","L","E","T","E">>
wINSERT == <<"I","N","S","E","R","T">>
wSELECT == <<"S","E","L","E","C","T">>
wSHOW   == <<"S","H","O","W">>
wWHERE  == <<"W","H","E","R","E">>
wRETURNING == <<"R","E","T","U","R","N","I","N","G">>

fTable   == <<" ","t">>
fWhere   == <<" ","w","h","e","r","e">>
fParam   == <<" ","x","=","%","s">>
fNoneLit == <<" ","N","o","n","e">>
fComment == <<"-","-","c","\n">>

\* what may precede the leading word: nothing, white space, a "--" comment line
Leads == { <<>>, <<" ">>, fComment }

\* the leading words, in upper, lower and mixed case
Verbs == { wCREATE, <<"d","r","o","p">>, wUPDATE, <<"D","e","l","e","t","e">>,
           wINSERT, <<"s","e","l","e","c","t">>, wSHOW }

BodyFrags == { fWhere, fParam, fNoneLit, <<" ">> \o wRETURNING }

RECURSIVE Bodies(_)
Bodies(n) == IF n = 0 THEN { <<>> }
             ELSE Bodies(n - 1) \cup { b \o f : b \in Bodies(n - 1), f \in BodyFrags }

\* the statements whose text the guards and classifiers are run on
Statements == { l \o v \o b : l \in Leads, v \in Verbs, b \in Bodies(MaxBody) }

\* a few statements of every kind, for the calls whose driver is followed in full
CoreStatements ==
    { l \o v \o b : l \in { <<>>, fComment }, v \in Verbs,
                    b \in { fTable, fTable \o fWhere \o fParam,
                            fTable \o fWhere \o fParam \o <<" ">> \o wRETURNING } }

dSqlite   == <<"s","q","l","i","t","e">>
dMysql    == <<"m","y","s","q","l">>
dPostgres == <<"p","o","s","t","g","r","e","s">>
dOracle   == <<"o","r","a","c","l","e">>

\* values of creds["driver"]; <<>> stands for a creds dict without the key
NoDriverKey == <<>>
DriverValues == { NoDriverKey, dSqlite, <<"S","Q","L","i","t","e">>, dMysql,
                  <<"P","o","s","t","g","r","e","s">>, dOracle }

\* db_creds: None, an empty dict (falsy), or a dict of credentials
NoDbCreds == [given |-> "None", driver |-> NoDriverKey]
DbCreds(d) == [given |-> "dict", driver |-> d]
DbCredsValues == { NoDbCreds, [given |-> "empty", driver |-> NoDriverKey] }
                 \cup { DbCreds(d) : d \in DriverValues }

\* db_bridge_profile: None or the name of an INI section
ProfileValues == { "None", "prod" }

\* params: None, an empty tuple (falsy), a tuple of values
ParamsValues == { "None", "empty", "values" }

\* quiet: None, True, False
QuietValues == { "None", "True", "False" }

\* the first n rows of a table, in ascending and in descending order
Ascending(n) == [i \in 1..n |-> i]
Descending(n) == [i \in 1..n |-> n + 1 - i]

\* what cursor.fetchall() may yield: a list of rows in some order, or (PyMySQL,
\* nothing matched) an empty tuple
FetchResults ==
    { [container |-> "tuple", rows |-> <<>>] }
    \cup { [container |-> "list", rows |-> Ascending(n)] : n \in 0..MaxRows }
    \cup { [container |-> "list", rows |-> Descending(n)] : n \in 0..MaxRows }

\* ------------------------------------------------------------------------
\* Outcomes of a call
\* ------------------------------------------------------------------------

Pending == [kind |-> "pending", exc |-> "", cause |-> "", type |-> "", rows |-> <<>>, num |-> 0]

Raise(exc, cause) == [Pending EXCEPT !.kind = "raise", !.exc = exc, !.cause = cause]

ReturnRows(container, rows) == [Pending EXCEPT !.kind = "return", !.type = container, !.rows = rows]

ReturnInt(n) == [Pending EXCEPT !.kind = "return", !.type = "int", !.num = n]

ReturnNone == [Pending EXCEPT !.kind = "return", !.type = "None"]

\* ------------------------------------------------------------------------
\* State
\* ------------------------------------------------------------------------

VARIABLES
    pc,         \* where the call is: "prepare", "connect", "final_sql", "execute",
                \* "result", "close", "done"
    pkg,        \* the package that is called: "db_bridge" or "dbbridge"
    caller,     \* who calls run_sql: "user" or "get_column_values"
    lookup,     \* the arguments of the get_column_values call, if there is one
    args,       \* the arguments of the run_sql call
    faulty,     \* whether the database of this call is one whose driver calls may raise
    driver,     \* run_sql's local driver
    raw_sql,    \* run_sql's local raw_sql
    bridge,     \* the bridge class constructed ("none" before)
    quiet_now,  \* run_sql's local quiet once its default is determined
    exec_sql,   \* the text handed to cursor.execute
    cursor,     \* cursor.description, what fetchall yielded and, once read,
                \* cursor.rowcount and cursor.lastrowid
    events,     \* the calls on the driver ("name!" for one that raised) and the
                \* messages emitted, in order
    outcome,    \* what run_sql returns or raises
    prompts,    \* how often get_column_values has asked the user to choose a row
    chosen,     \* the row the user chose (0 while none is chosen)
    lookup_outcome, \* what get_column_values returns or raises
    env,        \* the environment variables load_config reads
    ini,        \* the file ~/.dbbridge.cfg
    loaded      \* what dbbridge.config.load_config returns or raises

environment == <<env, ini, loaded>>
inputs == <<pkg, caller, lookup, args, faulty, environment>>
locals == <<driver, raw_sql, bridge, quiet_now, exec_sql, cursor>>
outer == <<prompts, chosen, lookup_outcome>>
vars == <<pc, pkg, caller, lookup, args, faulty, driver, raw_sql, bridge, quiet_now, exec_sql,
          cursor, events, outcome, prompts, chosen, lookup_outcome, env, ini, loaded>>

NotFetched == [container |-> "none", rows |-> <<>>]
NoCursor == [description |-> "unset", fetched |-> NotFetched, rowcount |-> 0, lastrowid |-> 0]

\* whether a driver call succeeds: always on a sound database, either way on a faulty one
Oks == IF faulty THEN BOOLEAN ELSE {TRUE}

\* ------------------------------------------------------------------------
\* db_bridge.run_sql, step by step
\* ------------------------------------------------------------------------

\* a check that takes None alone for "not given"
BothGivenUnlessEmpty(db_creds, profile) == db_creds.given # "None" /\ profile # "None"
                                           /\ db_creds.given # "dict"

\* `if db_creds and db_bridge_profile`: a non-empty dict and a non-empty string
BothGiven(db_creds, profile) == db_creds.given = "dict" /\ profile # "None"

\* `db_creds if db_creds else config.load_config(...)`
UsesDbCreds(db_creds) == db_creds.given = "dict"

\* the driver taken as it is written
DriverAsWritten(creds_driver) == IF creds_driver = NoDriverKey THEN dMysql ELSE creds_driver

\* creds.get("driver", "mysql").lower()
DriverOf(creds_driver) == Lower(IF creds_driver = NoDriverKey THEN dMysql ELSE creds_driver)

\* what config.load_config may do: return the section's credentials, the
\* driver lower-cased (mysql when the section has none), or raise RuntimeError
NoConfig == [raises |-> FALSE, driver |-> dMysql]
ConfigResults == { [raises |-> TRUE, driver |-> dMysql] }
                 \cup { [raises |-> FALSE, driver |-> DriverOf(d)] : d \in DriverValues }

\* sql.strip(), then replace_none_w_null when params is None and none_to_null
PrepareSql(sql, params, none_to_null) ==
    IF params = "None" /\ none_to_null THEN replace_none_w_null(Strip(sql)) ELSE Strip(sql)

\* a guard that matches the words in upper case only
DDLGuardCaseSensitive(drv, raw) ==
    drv # dSqlite /\ (MatchAt(raw, 0, wCREATE) \/ MatchAt(raw, 0, wDROP))

\* the CREATE/DROP guard of db_bridge
DDLGuard(drv, raw) ==
    drv # dSqlite /\ (StartsWithCI(raw, wCREATE) \/ StartsWithCI(raw, wDROP))

\* a guard that looks at UPDATE alone
WhereGuardUpdateOnly(raw) == StartsWithCI(raw, wUPDATE) /\ ~ContainsCI(raw, wWHERE)

\* the UPDATE/DELETE-without-WHERE guard
WhereGuard(raw) ==
    (StartsWithCI(raw, wUPDATE) \/ StartsWithCI(raw, wDELETE)) /\ ~ContainsCI(raw, wWHERE)

\* the adapter chosen for a driver
BridgeFor(drv) ==
    IF drv = dSqlite THEN "SQLiteBridge"
    ELSE IF drv = dMysql THEN "MySQLBridge"
    ELSE IF drv = dPostgres THEN "PostgresBridge"
    ELSE "unsupported"

\* hasattr(cursor, "mogrify"): PyMySQL and psycopg2 cursors have it, sqlite3's has not
HasMogrify(b) == b \in {"MySQLBridge", "PostgresBridge"}

\* the default of quiet
DefaultQuiet(quiet, raw) ==
    IF quiet = "None"
    THEN ~(StartsWithCI(raw, wUPDATE) \/ StartsWithCI(raw, wDELETE) \/ StartsWithCI(raw, wINSERT))
    ELSE quiet = "True"

\* the placeholders swapped for every driver
ExecSqlAnyDriver(drv, params, raw) ==
    IF params = "values" THEN Replace(raw, cPct, cQ) ELSE raw

\* raw_sql.replace("%s", "?") if (driver == "sqlite" and params) else raw_sql
ExecSql(drv, params, raw) ==
    IF drv = dSqlite /\ params = "values" THEN Replace(raw, cPct, cQ) ELSE raw

\* re.search(r'^\s*(?:--.*\n\s*)*([A-Za-z]+)', raw_sql), group(1).upper(), '' without a match
CmdOf(raw) == Upper(TakeLetters(SkipComments(LStrip(raw))))

\* The database server's reading of a statement: its first keyword, comments
\* and white space skipped.
ServerVerb(text) == Upper(TakeLetters(SkipComments(LStrip(text))))

\* cursor.description after a successful execute: not None exactly when the
\* statement produced a result set (a SELECT or SHOW, or an INSERT, UPDATE or
\* DELETE with a RETURNING clause).
DescriptionAfter(text) ==
    IF ServerVerb(text) \in {wSELECT, wSHOW}
       \/ (ServerVerb(text) \in {wINSERT, wUPDATE, wDELETE} /\ ContainsCI(text, wRETURNING))
    THEN "columns" ELSE "None"

\* the error raised again as it is
Reraised(cause) == Raise("DriverError", cause)

\* lines 201-204: `raise SQLExecutionError(...) from e`
Wrapped(cause) == Raise("SQLExecutionError", cause)

\* lines 107-122: credentials, raw SQL, permission guards
Prepare ==
    /\ pc = "prepare" /\ pkg = "db_bridge"
    /\ IF BothGiven(args.db_creds, args.db_bridge_profile)
       THEN /\ outcome' = Raise("ValueError", "both")
            /\ pc' = "done"
            /\ UNCHANGED <<events, locals>>
       ELSE \E cfg \in ConfigResults :
            LET loads == ~UsesDbCreds(args.db_creds)
                drv   == DriverOf(IF loads THEN cfg.driver ELSE args.db_creds.driver)
                raw   == PrepareSql(args.sql, args.params, args.none_to_null)
            IN  /\ loads \/ cfg = NoConfig
                /\ events' = IF loads THEN Append(events, "load_config") ELSE events
                /\ IF loads /\ cfg.raises
                   THEN /\ outcome' = Raise("RuntimeError", "config")
                        /\ pc' = "done"
                        /\ UNCHANGED locals
                   ELSE /\ driver' = drv
                        /\ raw_sql' = raw
                        /\ UNCHANGED <<bridge, quiet_now, exec_sql, cursor>>
                        /\ IF DDLGuard(drv, raw) \/ WhereGuard(raw)
                           THEN outcome' = Raise("SQLPermissionError", "guard") /\ pc' = "done"
                           ELSE outcome' = outcome /\ pc' = "connect"
    /\ UNCHANGED <<inputs, outer>>

\* lines 124-134: the adapter for the driver opens the connection
Connect ==
    /\ pc = "connect" /\ pkg = "db_bridge"
    /\ IF BridgeFor(driver) = "unsupported"
       THEN /\ outcome' = Raise("ValueError", "driver")
            /\ pc' = "done"
            /\ UNCHANGED <<events, bridge>>
       ELSE \E ok \in Oks :
            /\ events' = Append(events, IF ok THEN "connect" ELSE "connect!")
            /\ bridge' = BridgeFor(driver)
            /\ IF ok THEN outcome' = outcome /\ pc' = "final_sql"
               ELSE outcome' = Raise("DriverError", "connect") /\ pc' = "done"
    /\ UNCHANGED <<inputs, outer, driver, raw_sql, quiet_now, exec_sql, cursor>>

\* what cursor.mogrify may do: return the text, raise an error the code catches
\* (AttributeError, TypeError, ValueError), raise another error
MogrifyResults == IF faulty THEN {"ok", "caught", "uncaught"} ELSE {"ok"}

\* lines 136-159: the SQL shown in messages (mogrify), the default of quiet
FinalSql ==
    /\ pc = "final_sql" /\ pkg = "db_bridge"
    /\ \E m \in MogrifyResults :
       LET calls == args.params # "None" /\ HasMogrify(bridge)
       IN  /\ calls \/ m = "ok"
           /\ events' = IF ~calls THEN events
                        ELSE IF m = "caught" THEN events \o <<"mogrify!", "log_warning">>
                        ELSE Append(events, IF m = "ok" THEN "mogrify" ELSE "mogrify!")
           /\ IF m = "uncaught"
              THEN outcome' = Raise("DriverError", "mogrify") /\ pc' = "done"
                   /\ UNCHANGED quiet_now
              ELSE outcome' = outcome /\ pc' = "execute"
                   /\ quiet_now' = DefaultQuiet(args.quiet, raw_sql)
    /\ UNCHANGED <<inputs, outer, driver, raw_sql, bridge, exec_sql, cursor>>

\* lines 161-172 and 201-204: show the SQL, execute it
Execute ==
    /\ pc = "execute" /\ pkg = "db_bridge"
    /\ \E ok \in Oks :
       LET text  == ExecSql(driver, args.params, raw_sql)
           shown == IF quiet_now THEN events ELSE Append(events, "info_sql")
       IN  /\ exec_sql' = text
           /\ IF ok
              THEN /\ events' = Append(shown, "execute")
                   /\ cursor' = [cursor EXCEPT !.description = DescriptionAfter(text)]
                   /\ outcome' = outcome
                   /\ pc' = "result"
              ELSE /\ events' = shown \o <<"execute!", "log_error">>
                   /\ cursor' = cursor
                   /\ outcome' = Wrapped("execute")
                   /\ pc' = "close"
    /\ UNCHANGED <<inputs, outer, driver, raw_sql, bridge, quiet_now>>

\* the rows returned as fetchall yielded them
RowsAsFetched(f) == ReturnRows(f.container, f.rows)

\* `rows = cursor.fetchall() or []`
RowsOrEmpty(f) == IF f.rows = <<>> THEN ReturnRows("list", <<>>) ELSE ReturnRows(f.container, f.rows)

\* INSERT answered with the row count
WriteResultCountForInsert(cmd, cur) ==
    IF cmd \in {wINSERT, wUPDATE, wDELETE} THEN ReturnInt(cur.rowcount)
    ELSE ReturnRows("list", <<>>)

\* UPDATE and DELETE answered with the last row id
WriteResultIdForUpdate(cmd, cur) ==
    IF cmd \in {wINSERT, wUPDATE, wDELETE} THEN ReturnInt(cur.lastrowid)
    ELSE ReturnRows("list", <<>>)

\* nothing returned for the other statements
WriteResultNoneForOther(cmd, cur) ==
    IF cmd = wINSERT THEN ReturnInt(cur.lastrowid)
    ELSE IF cmd \in {wUPDATE, wDELETE} THEN ReturnInt(cur.rowcount)
    ELSE ReturnNone

\* lines 187-200: the value returned once the statement is committed
WriteResult(cmd, cur) ==
    IF cmd = wINSERT THEN ReturnInt(cur.lastrowid)
    ELSE IF cmd \in {wUPDATE, wDELETE} THEN ReturnInt(cur.rowcount)
    ELSE ReturnRows("list", <<>>)

\* the values the cursor shows when its attributes are read after a write:
\* rowcount for INSERT, UPDATE and DELETE, lastrowid for INSERT
CursorsRead(cmd, cur) ==
    { [cur EXCEPT !.rowcount = rc, !.lastrowid = id] :
        rc \in IF cmd \in {wINSERT, wUPDATE, wDELETE} THEN 0..MaxRowCount ELSE {0},
        id \in IF cmd = wINSERT THEN 0..MaxRowId ELSE {0} }

\* lines 174-178 and 201-204: a result set is fetched and returned
Fetch ==
    /\ pc = "result" /\ pkg = "db_bridge"
    /\ cursor.description # "None"
    /\ \/ \E f \in FetchResults :
             /\ events' = Append(events, "fetchall")
             /\ cursor' = [cursor EXCEPT !.fetched = f]
             /\ outcome' = RowsOrEmpty(f)
       \/ /\ faulty
          /\ events' = events \o <<"fetchall!", "log_error">>
          /\ cursor' = cursor
          /\ outcome' = Wrapped("fetchall")
    /\ pc' = "close"
    /\ UNCHANGED <<inputs, outer, driver, raw_sql, bridge, quiet_now, exec_sql>>

\* lines 180-204: no result set: commit, then the value for the command
Commit ==
    /\ pc = "result" /\ pkg = "db_bridge"
    /\ cursor.description = "None"
    /\ \/ \E cur \in CursorsRead(CmdOf(raw_sql), cursor) :
             /\ cursor' = cur
             /\ events' = IF CmdOf(raw_sql) \in {wINSERT, wUPDATE, wDELETE} /\ ~quiet_now
                          THEN events \o <<"commit", "info_rows">>
                          ELSE Append(events, "commit")
             /\ outcome' = WriteResult(CmdOf(raw_sql), cur)
       \/ /\ faulty
          /\ cursor' = cursor
          /\ events' = events \o <<"commit!", "log_error">>
          /\ outcome' = Wrapped("commit")
    /\ pc' = "close"
    /\ UNCHANGED <<inputs, outer, driver, raw_sql, bridge, quiet_now, exec_sql>>

\* lines 205-206 and BaseBridge.close: an exception of close is swallowed
Close ==
    /\ pc = "close" /\ pkg = "db_bridge"
    /\ \E ok \in Oks :
       events' = IF ok THEN Append(events, "close") ELSE events \o <<"close!", "print_exception">>
    /\ pc' = "done"
    /\ UNCHANGED <<inputs, outer, locals, outcome>>

\* ------------------------------------------------------------------------
\* dbbridge.run_sql (the earlier package), step by step
\* ------------------------------------------------------------------------

\* the CREATE/DROP guard of dbbridge
LegacyDDLGuard(raw) == StartsWithCI(raw, wCREATE) \/ StartsWithCI(raw, wDROP)

\* raw_sql.split()[0].upper()
LegacyCmdOf(raw) == Upper(FirstToken(raw))

\* lines 119-139: the value returned for a command that is not SELECT
LegacyWriteResult(cmd, cur) ==
    IF cmd = wINSERT THEN ReturnInt(cur.lastrowid)
    ELSE IF cmd \in {wUPDATE, wDELETE} THEN ReturnInt(cur.rowcount)
    ELSE ReturnRows("list", <<>>)

\* lines 69-83: credentials (db_creds or the DB_CREDS loaded at import), raw SQL, guards
LegacyPrepare ==
    /\ pc = "prepare" /\ pkg = "dbbridge"
    /\ LET raw == PrepareSql(args.sql, args.params, args.none_to_null)
       IN  /\ raw_sql' = raw
           /\ IF LegacyDDLGuard(raw) \/ WhereGuard(raw)
              THEN outcome' = Raise("Exception", "guard") /\ pc' = "done"
              ELSE outcome' = outcome /\ pc' = "connect"
    /\ UNCHANGED <<inputs, outer, driver, bridge, quiet_now, exec_sql, cursor, events>>

\* lines 85-99: pymysql.connect; a failure is logged and raised again as it is
LegacyConnect ==
    /\ pc = "connect" /\ pkg = "dbbridge"
    /\ bridge' = "pymysql"
    /\ \/ /\ events' = Append(events, "connect")
          /\ outcome' = outcome /\ pc' = "execute"
       \/ /\ faulty
          /\ events' = events \o <<"connect!", "log_error">>
          /\ outcome' = Raise("DriverError", "connect") /\ pc' = "done"
    /\ UNCHANGED <<inputs, outer, driver, raw_sql, quiet_now, exec_sql, cursor>>

\* lines 101-117 and 140-142: the default of quiet, show and log the SQL, execute it
LegacyExecute ==
    /\ pc = "execute" /\ pkg = "dbbridge"
    /\ \E ok \in Oks :
       LET q     == DefaultQuiet(args.quiet, raw_sql)
           shown == (IF q THEN events ELSE Append(events, "info_sql")) \o <<"log_sql">>
       IN  /\ quiet_now' = q
           /\ exec_sql' = raw_sql
           /\ IF ok
              THEN /\ events' = Append(shown, "execute")
                   /\ cursor' = [cursor EXCEPT !.description = DescriptionAfter(raw_sql)]
                   /\ outcome' = outcome
                   /\ pc' = "result"
              ELSE /\ events' = shown \o <<"execute!", "log_error">>
                   /\ cursor' = cursor
                   /\ outcome' = Raise("DriverError", "execute")
                   /\ pc' = "close"
    /\ UNCHANGED <<inputs, outer, driver, raw_sql, bridge>>

\* lines 119-123 and 140-142: SELECT: fetch the rows
LegacyFetch ==
    /\ pc = "result" /\ pkg = "dbbridge"
    /\ LegacyCmdOf(raw_sql) = wSELECT
    /\ \/ \E f \in FetchResults :
             /\ events' = Append(events, "fetchall")
             /\ cursor' = [cursor EXCEPT !.fetched = f]
             /\ outcome' = RowsOrEmpty(f)
       \/ /\ faulty
          /\ events' = events \o <<"fetchall!", "log_error">>
          /\ cursor' = cursor
          /\ outcome' = Raise("DriverError", "fetchall")
    /\ pc' = "close"
    /\ UNCHANGED <<inputs, outer, driver, raw_sql, bridge, quiet_now, exec_sql>>

\* lines 124-142: any other command: commit, then the value for the command
LegacyCommit ==
    /\ pc = "result" /\ pkg = "dbbridge"
    /\ LegacyCmdOf(raw_sql) # wSELECT
    /\ \/ \E cur \in CursorsRead(LegacyCmdOf(raw_sql), cursor) :
             /\ cursor' = cur
             /\ events' = IF LegacyCmdOf(raw_sql) \notin {wINSERT, wUPDATE, wDELETE}
                          THEN Append(events, "commit")
                          ELSE IF quiet_now THEN events \o <<"commit", "log_rows">>
                          ELSE events \o <<"commit", "info_rows", "log_rows">>
             /\ outcome' = LegacyWriteResult(LegacyCmdOf(raw_sql), cur)
       \/ /\ faulty
          /\ cursor' = cursor
          /\ events' = events \o <<"commit!", "log_error">>
          /\ outcome' = Raise("DriverError", "commit")
    /\ pc' = "close"
    /\ UNCHANGED <<inputs, outer, driver, raw_sql, bridge, quiet_now, exec_sql>>

\* lines 143-145: cursor.close() and conn.close() in the finally clause; an
\* exception of either replaces what the call was about to return or raise
LegacyClose ==
    /\ pc = "close" /\ pkg = "dbbridge"
    /\ \/ /\ events' = Append(events, "close")
          /\ outcome' = outcome
       \/ /\ faulty
          /\ events' = Append(events, "close!")
          /\ outcome' = Raise("DriverError", "close")
    /\ pc' = "done"
    /\ UNCHANGED <<inputs, outer, locals>>

\* ------------------------------------------------------------------------
\* db_bridge.get_column_values
\* ------------------------------------------------------------------------

cId    == <<"i","d">>
cKey   == <<"k">>
cName  == <<"n","a","m","e">>
cEmail == <<"e","m","a","i","l">>

\* values of *columns_to_return and of primary_key
ColumnLists == { <<cName>>, <<cName, cEmail>>, <<cId>>, <<cId, cName>>, <<cEmail, cName>> }
PrimaryKeys == { cId, cKey }

NoLookup == [columns_to_return |-> <<>>, primary_key |-> <<>>, as_tuple |-> TRUE,
             error_if_missing |-> TRUE, db_creds |-> NoDbCreds, db_bridge_profile |-> "None"]

LookupPending == [kind |-> "pending", exc |-> "", cause |-> "", type |-> "", row |-> 0,
                  keys |-> <<>>]

LookupRaise(exc, cause) == [LookupPending EXCEPT !.kind = "raise", !.exc = exc, !.cause = cause]

\* the value returned: None, the bare value of one column of a row, a tuple of
\* the values of some columns of a row, or the row as a dict with some keys
LookupReturn(type, row, keys) ==
    [LookupPending EXCEPT !.kind = "return", !.type = type, !.row = row, !.keys = keys]

\* sep.join(items)
RECURSIVE Join(_, _)
Join(items, sep) ==
    IF items = <<>> THEN <<>>
    ELSE IF Len(items) = 1 THEN items[1]
    ELSE items[1] \o sep \o Join(Tail(items), sep)

InList(x, items) == \E i \in 1..Len(items) : items[i] = x

\* lines 249-256: the SELECT of the lookup, the primary key added when it is not asked for
LookupSql(columns, primary_key) ==
    LET cols == Join(columns, <<",">>)
        select_cols == IF InList(primary_key, columns) THEN cols
                       ELSE primary_key \o <<",", " ">> \o cols
    IN  wSELECT \o <<" ">> \o select_cols \o <<" ","F","R","O","M"," ","t"," ">>
        \o wWHERE \o <<" ","u"," ","="," ">> \o cPct

\* lines 248-258: build the SELECT and hand it to run_sql
LookupCall ==
    /\ pc = "lookup" /\ pkg = "db_bridge"
    /\ args' = [sql |-> LookupSql(lookup.columns_to_return, lookup.primary_key),
                params |-> "values", as_dict |-> TRUE, quiet |-> "None", none_to_null |-> TRUE,
                db_creds |-> lookup.db_creds, db_bridge_profile |-> lookup.db_bridge_profile]
    /\ pc' = "prepare"
    /\ UNCHANGED <<pkg, caller, lookup, faulty, environment, locals, events, outcome, outer>>

\* nothing found, whatever error_if_missing says
MissingAlwaysNone(error_if_missing) == LookupReturn("None", 0, <<>>)

\* lines 260-263: no row matched
Missing(error_if_missing) ==
    IF error_if_missing THEN LookupRaise("NoRowFoundError", "missing")
    ELSE LookupReturn("None", 0, <<>>)

\* what a row of the bridge's cursor is with as_dict=True: a dict (PyMySQL
\* DictCursor), a sqlite3.Row, a psycopg2 DictRow
RowType(b) ==
    IF b = "SQLiteBridge" THEN "sqlite3.Row"
    ELSE IF b = "PostgresBridge" THEN "DictRow"
    ELSE "dict"

\* the columns of a row of the lookup: those of its SELECT
RowKeys(columns, primary_key) ==
    IF InList(primary_key, columns) THEN columns ELSE <<primary_key>> \o columns

\* the keys left by row.pop(key, None)
Popped(keys, key) == SelectSeq(keys, LAMBDA k : k # key)

\* lines 277-286: the shape of the value returned for the row found. The
\* row is returned as it is, the primary key popped when it was not asked
\* for; a sqlite3.Row has no pop (AttributeError) and the pop of a DictRow, a
\* list, takes no default (TypeError).
Shaped(row, columns, primary_key, as_tuple, row_type) ==
    IF as_tuple
    THEN IF Len(columns) = 1 THEN LookupReturn("value", row, <<columns[1]>>)
         ELSE LookupReturn("tuple", row, columns)
    ELSE IF InList(primary_key, columns)
    THEN LookupReturn(row_type, row, RowKeys(columns, primary_key))
    ELSE IF row_type = "dict"
    THEN LookupReturn("dict", row, Popped(RowKeys(columns, primary_key), primary_key))
    ELSE IF row_type = "sqlite3.Row" THEN LookupRaise("AttributeError", "pop")
    ELSE LookupRaise("TypeError", "pop")

\* `row = chosen_row`: the row that goes on to be returned is the i-th
\* candidate, the one chosen
RowUsed(rows, i) == rows[i]

\* lines 257-286: what run_sql raised goes on to the caller; what it returned
\* is handled by the number of rows
LookupFinish ==
    /\ pc = "done" /\ pkg = "db_bridge" /\ caller = "get_column_values"
    /\ IF outcome.kind = "raise"
       THEN /\ lookup_outcome' = LookupRaise(outcome.exc, outcome.cause)
            /\ UNCHANGED <<prompts, chosen>>
       ELSE IF outcome.rows = <<>>
       THEN /\ lookup_outcome' = Missing(lookup.error_if_missing)
            /\ UNCHANGED <<prompts, chosen>>
       ELSE IF Len(outcome.rows) > 1
       THEN \E i \in 1..Len(outcome.rows) :
            /\ prompts' = prompts + 1
            /\ chosen' = outcome.rows[i]
            /\ lookup_outcome' = Shaped(RowUsed(outcome.rows, i), lookup.columns_to_return,
                                        lookup.primary_key, lookup.as_tuple, RowType(bridge))
       ELSE /\ UNCHANGED <<prompts, chosen>>
            /\ lookup_outcome' = Shaped(outcome.rows[1], lookup.columns_to_return,
                                        lookup.primary_key, lookup.as_tuple, RowType(bridge))
    /\ pc' = "returned"
    /\ UNCHANGED <<inputs, locals, events, outcome>>

\* ------------------------------------------------------------------------
\* dbbridge.get_column_values (the earlier package)
\* ------------------------------------------------------------------------

\* lines 171-174: the SELECT, `id` added when it is not asked for, the value
\* written into the text between quotes
LegacyLookupSql(columns) ==
    wSELECT \o <<" ">> \o (IF InList(cId, columns) THEN <<>> ELSE cId \o <<",", " ">>)
    \o Join(columns, <<",">>) \o <<" ","F","R","O","M"," ","t"," ">>
    \o wWHERE \o <<" ","u","=","'","v","'">>

\* lines 169-177: build the SELECT and hand it to run_sql(sql)
LegacyLookupCall ==
    /\ pc = "lookup" /\ pkg = "dbbridge"
    /\ args' = [sql |-> LegacyLookupSql(lookup.columns_to_return),
                params |-> "None", as_dict |-> TRUE, quiet |-> "None", none_to_null |-> TRUE,
                db_creds |-> NoDbCreds, db_bridge_profile |-> "None"]
    /\ pc' = "prepare"
    /\ UNCHANGED <<pkg, caller, lookup, faulty, environment, locals, events, outcome, outer>>

\* lines 210-219: the shape of the value returned; the rows are dicts (DictCursor)
LegacyShaped(row, columns, as_tuple) ==
    IF as_tuple
    THEN IF Len(columns) = 1 THEN LookupReturn("value", row, <<columns[1]>>)
         ELSE LookupReturn("tuple", row, columns)
    ELSE IF InList(cId, columns) THEN LookupReturn("dict", row, RowKeys(columns, cId))
    ELSE LookupReturn("dict", row, Popped(RowKeys(columns, cId), cId))

\* lines 179-219: an exception of run_sql is raised again as an Exception; no
\* row gives None and one row is returned. With several rows the warning is
\* printed and the list of choices is built with string_from_list, a name
\* that is neither defined nor imported in the module: NameError is raised
\* there, and the loop that asks for an id (lines 193-206) is never entered.
LegacyLookupFinish ==
    /\ pc = "done" /\ pkg = "dbbridge" /\ caller = "get_column_values"
    /\ IF outcome.kind = "raise"
       THEN /\ lookup_outcome' = LookupRaise("Exception", outcome.cause)
            /\ events' = events
       ELSE IF Len(outcome.rows) = 0
       THEN /\ lookup_outcome' = LookupReturn("None", 0, <<>>)
            /\ events' = events
       ELSE IF Len(outcome.rows) > 1
       THEN /\ lookup_outcome' = LookupRaise("NameError", "string_from_list")
            /\ events' = Append(events, "print_warning")
       ELSE /\ lookup_outcome' = LegacyShaped(outcome.rows[1], lookup.columns_to_return,
                                              lookup.as_tuple)
            /\ events' = events
    /\ pc' = "returned"
    /\ UNCHANGED <<inputs, locals, outcome, prompts, chosen>>

\* ------------------------------------------------------------------------
\* dbbridge.config.load_config
\* ------------------------------------------------------------------------

\* an environment variable that is not set, an INI option that is not there
Unset == "<unset>"

\* a text that is to be read as a number: not there, or its characters
NoNumber == [set |-> FALSE, text |-> <<>>]
Number(text) == [set |-> TRUE, text |-> text]

DigitValue == ("0" :> 0) @@ ("1" :> 1) @@ ("2" :> 2) @@ ("3" :> 3) @@ ("4" :> 4)
              @@ ("5" :> 5) @@ ("6" :> 6) @@ ("7" :> 7) @@ ("8" :> 8) @@ ("9" :> 9)

\* int(text) succeeds
IsInt(text) == Len(text) > 0 /\ \A i \in 1..Len(text) : text[i] \in DOMAIN DigitValue

\* int(text), base 10
RECURSIVE IntOf(_)
IntOf(text) ==
    IF text = <<>> THEN 0
    ELSE IntOf(SubSeq(text, 1, Len(text) - 1)) * 10 + DigitValue[text[Len(text)]]

t3306 == <<"3", "3", "0", "6">>
t3307 == <<"3", "3", "0", "7">>
t5433 == <<"5", "4", "3", "3">>
tBad  == <<"x">>

\* the process environment: DB_NAME, DB_USER, DB_PASS, DB_HOST, DB_PORT and
\* DBBRIDGE_PROFILE, each set or not
NoEnv == [DB_NAME |-> Unset, DB_USER |-> Unset, DB_PASS |-> Unset, DB_HOST |-> Unset,
          DB_PORT |-> NoNumber, DBBRIDGE_PROFILE |-> Unset]

Environments ==
    [DB_NAME : {Unset, "", "env_name"}, DB_USER : {Unset, "", "env_user"},
     DB_PASS : {Unset, "", "env_pass"}, DB_HOST : {Unset, "env_host"},
     DB_PORT : {NoNumber, Number(t3307), Number(tBad)},
     DBBRIDGE_PROFILE : {Unset, "", "prod", "gone", "DEFAULT"}]

\* a section of ~/.dbbridge.cfg: its name and its options
Section(s, host, port, name, user, password) ==
    [section |-> s, host |-> host, port |-> port, name |-> name, user |-> user,
     password |-> password]

DevSection == Section("dev", Unset, NoNumber, "dev_name", "dev_user", "dev_pass")

ProdSections ==
    { Section("prod", "prod_host", Number(t5433), "prod_name", "prod_user", "prod_pass"),
      Section("prod", Unset, NoNumber, "prod_name", "prod_user", "prod_pass"),
      Section("prod", "prod_host", Number(tBad), "prod_name", "prod_user", "prod_pass"),
      Section("prod", "prod_host", Number(t5433), Unset, "prod_user", "prod_pass") }

\* ~/.dbbridge.cfg: not there, or its [DEFAULT] options (active, host) and
\* its sections in the order of the file
NoFile == [exists |-> FALSE, active |-> Unset, host |-> Unset, sections |-> <<>>]

IniFiles ==
    { NoFile }
    \cup [exists : {TRUE}, active : {Unset, "", "dev", "gone"}, host : {Unset, "default_host"},
          sections : { <<>> } \cup { <<p>> : p \in ProdSections }
                     \cup { <<p, DevSection>> : p \in ProdSections }
                     \cup { <<DevSection, p>> : p \in ProdSections }]

\* what load_config returns or raises
NotLoaded == [kind |-> "pending", exc |-> "", host |-> "", port |-> 0, database |-> "",
              user |-> "", password |-> ""]

LoadError(exc) == [NotLoaded EXCEPT !.kind = "raise", !.exc = exc]

Credentials(host, port, database, user, password) ==
    [NotLoaded EXCEPT !.kind = "return", !.host = host, !.port = port, !.database = database,
                      !.user = user, !.password = password]

\* set, whatever the value
TruthyWhenSet(v) == v # Unset

\* the truth value of os.getenv(...): neither None nor the empty string
Truthy(v) == v # Unset /\ v # ""

\* os.getenv(name, default), sect.get(option, default)
Getenv(v, default) == IF v = Unset THEN default ELSE v

\* cfg.sections()
SectionNames(f) == [i \in 1..Len(f.sections) |-> f.sections[i].section]

\* `active in cfg`: a section of the file, or DEFAULT, which a ConfigParser always has
InCfg(f, active) == active = "DEFAULT" \/ InList(active, SectionNames(f))

\* cfg[active]: the options of the section; an option the section has not is
\* taken from [DEFAULT]
SectionOf(f, active) ==
    LET defaults == Section("DEFAULT", f.host, NoNumber, Unset, Unset, Unset)
    IN  IF active = "DEFAULT" THEN defaults
        ELSE LET s == f.sections[CHOOSE i \in 1..Len(f.sections) : f.sections[i].section = active]
             IN  [s EXCEPT !.host = Getenv(s.host, defaults.host)]

\* lines 57-64: the credentials of a section; int() of a port that is no
\* number raises ValueError, an option that is missing raises KeyError
SectionCredentials(sect) ==
    LET port == IF sect.port.set THEN sect.port.text ELSE t3306
    IN  IF ~IsInt(port) THEN LoadError("ValueError")
        ELSE IF sect.name = Unset \/ sect.user = Unset \/ sect.password = Unset
        THEN LoadError("KeyError")
        ELSE Credentials(Getenv(sect.host, "localhost"), IntOf(port), sect.name, sect.user,
                         sect.password)

\* lines 22-64
load_config(e, f) ==
    IF Truthy(e.DB_NAME) /\ Truthy(e.DB_USER) /\ Truthy(e.DB_PASS)
    THEN LET port == IF e.DB_PORT.set THEN e.DB_PORT.text ELSE t3306
         IN  IF ~IsInt(port) THEN LoadError("ValueError")
             ELSE Credentials(Getenv(e.DB_HOST, "localhost"), IntOf(port), e.DB_NAME,
                              e.DB_USER, e.DB_PASS)
    ELSE IF ~f.exists THEN LoadError("RuntimeError")
    ELSE LET named == IF Truthy(e.DBBRIDGE_PROFILE) THEN e.DBBRIDGE_PROFILE ELSE f.active
         IN  IF ~Truthy(named) /\ f.sections = <<>> THEN LoadError("RuntimeError")
             ELSE LET active == IF Truthy(named) THEN named ELSE SectionNames(f)[1]
                  IN  IF ~InCfg(f, active) THEN LoadError("RuntimeError")
                      ELSE SectionCredentials(SectionOf(f, active))

\* one call of load_config
LoadConfig ==
    /\ pc = "load_config"
    /\ loaded' = load_config(env, ini)
    /\ pc' = "loaded"
    /\ UNCHANGED <<pkg, caller, lookup, args, faulty, env, ini, locals, events, outcome, outer>>

\* ------------------------------------------------------------------------
\* Specification of run_sql: one call, its arguments drawn at the start
\* ------------------------------------------------------------------------

\* calls that vary the text of the statement, on a sound database
TextCalls ==
    [sql : Statements, params : {"None", "values"}, as_dict : {TRUE}, quiet : {"None"},
     none_to_null : BOOLEAN, db_creds : {NoDbCreds, DbCreds(dSqlite), DbCreds(dMysql)},
     db_bridge_profile : {"None"}]

\* calls that vary where the credentials come from, on a sound database
CredsCalls ==
    [sql : { v \o b : v \in Verbs, b \in {fTable, fTable \o fWhere} }, params : {"None"}, as_dict : {TRUE},
     quiet : {"None"}, none_to_null : {TRUE}, db_creds : DbCredsValues,
     db_bridge_profile : ProfileValues]

\* calls that vary params, quiet and as_dict, on a database that may fail
DriverCalls ==
    [sql : CoreStatements, params : ParamsValues, as_dict : BOOLEAN, quiet : QuietValues,
     none_to_null : {TRUE},
     db_creds : {NoDbCreds, DbCreds(dSqlite), DbCreds(dMysql), DbCreds(dPostgres)},
     db_bridge_profile : {"None"}]

\* db_bridge.run_sql takes its credentials from db_creds or from load_config;
\* dbbridge.run_sql has no db_bridge_profile, and its creds name no driver
ArgsFit(p, a) ==
    IF p = "dbbridge" THEN a.db_bridge_profile = "None" /\ a.db_creds = NoDbCreds
    ELSE TRUE

InitLocals ==
    /\ driver = <<>> /\ raw_sql = <<>> /\ bridge = "none" /\ quiet_now = FALSE
    /\ exec_sql = <<>> /\ cursor = NoCursor /\ events = <<>> /\ outcome = Pending

\* no call of dbbridge.config.load_config
NoLoad == env = NoEnv /\ ini = NoFile /\ loaded = NotLoaded

Init ==
    /\ pc = "prepare"
    /\ pkg \in {"db_bridge", "dbbridge"}
    /\ caller = "user" /\ lookup = NoLookup /\ prompts = 0 /\ chosen = 0
    /\ lookup_outcome = LookupPending
    /\ \/ args \in TextCalls /\ faulty = FALSE
       \/ args \in CredsCalls /\ faulty = FALSE
       \/ args \in DriverCalls /\ faulty = TRUE
    /\ ArgsFit(pkg, args)
    /\ InitLocals /\ NoLoad

Next ==
    \/ Prepare \/ Connect \/ FinalSql \/ Execute \/ Fetch \/ Commit \/ Close
    \/ LegacyPrepare \/ LegacyConnect \/ LegacyExecute \/ LegacyFetch \/ LegacyCommit
    \/ LegacyClose

Spec == Init /\ [][Next]_vars

\* ------------------------------------------------------------------------
\* Specification of get_column_values: one lookup, on a database that may fail
\* ------------------------------------------------------------------------

LookupCalls ==
    [columns_to_return : ColumnLists, primary_key : PrimaryKeys, as_tuple : BOOLEAN,
     error_if_missing : BOOLEAN,
     db_creds : {NoDbCreds, DbCreds(dSqlite), DbCreds(dMysql), DbCreds(dPostgres)},
     db_bridge_profile : ProfileValues]

NoArgs == [sql |-> <<>>, params |-> "None", as_dict |-> TRUE, quiet |-> "None",
           none_to_null |-> TRUE, db_creds |-> NoDbCreds, db_bridge_profile |-> "None"]

\* dbbridge.get_column_values has neither primary_key (it is `id`) nor
\* error_if_missing, and run_sql is called with the credentials loaded at import
LookupFit(p, l) ==
    p = "dbbridge" => /\ l.primary_key = cId /\ ~l.error_if_missing
                      /\ l.db_creds = NoDbCreds /\ l.db_bridge_profile = "None"

InitLookup ==
    /\ pc = "lookup"
    /\ pkg \in {"db_bridge", "dbbridge"}
    /\ caller = "get_column_values"
    /\ lookup \in LookupCalls
    /\ LookupFit(pkg, lookup)
    /\ args = NoArgs
    /\ faulty = TRUE
    /\ prompts = 0 /\ chosen = 0 /\ lookup_outcome = LookupPending
    /\ InitLocals /\ NoLoad

\* the SELECT of a lookup has a result set: run_sql never takes its commit branch
NextLookup ==
    \/ LookupCall
    \/ Prepare \/ Connect \/ FinalSql \/ Execute \/ Fetch \/ Close
    \/ LookupFinish
    \/ LegacyLookupCall
    \/ LegacyPrepare \/ LegacyConnect \/ LegacyExecute \/ LegacyFetch \/ LegacyClose
    \/ LegacyLookupFinish

SpecLookup == InitLookup /\ [][NextLookup]_vars

\* ------------------------------------------------------------------------
\* Specification of dbbridge.config.load_config: one call, in an environment
\* and with a file drawn at the start
\* ------------------------------------------------------------------------

InitConfig ==
    /\ pc = "load_config"
    /\ pkg = "dbbridge" /\ caller = "user" /\ lookup = NoLookup /\ args = NoArgs
    /\ faulty = FALSE
    /\ prompts = 0 /\ chosen = 0 /\ lookup_outcome = LookupPending
    /\ InitLocals
    /\ env \in Environments /\ ini \in IniFiles /\ loaded = NotLoaded

NextConfig == LoadConfig

SpecConfig == InitConfig /\ [][NextConfig]_vars

\* ------------------------------------------------------------------------
\* Properties of run_sql
\* ------------------------------------------------------------------------

\* the statement as given, surrounding white space stripped
Stmt == Strip(args.sql)

Has(e) == \E i \in 1..Len(events) : events[i] = e

Count(e) == Cardinality({ i \in 1..Len(events) : events[i] = e })

Done == pc = "done"

BeginsDDL == StartsWithCI(Stmt, wCREATE) \/ StartsWithCI(Stmt, wDROP)

NoWhereWrite ==
    (StartsWithCI(Stmt, wUPDATE) \/ StartsWithCI(Stmt, wDELETE)) /\ ~ContainsCI(Stmt, wWHERE)

\* the call ended while resolving its credentials
CredentialsFailed == outcome.kind = "raise" /\ outcome.cause \in {"both", "config"}

\* the value of creds["driver"] (of db_creds, else of the loaded profile)
CredsDriver == IF args.db_creds.given = "dict" THEN args.db_creds.driver ELSE driver

SqliteCall == Lower(CredsDriver) = dSqlite

NoDriverCall ==
    \A e \in {"connect", "connect!", "execute", "execute!", "commit", "commit!"} : ~Has(e)

\* The leading SQL verb of the statement: its first word, which db_bridge
\* finds behind leading "--" comment lines and dbbridge takes to be the first
\* white-space-delimited token.
LeadingVerb ==
    IF pkg = "db_bridge" THEN Upper(TakeLetters(SkipComments(Stmt)))
    ELSE Upper(FirstToken(Stmt))

\* the statement was executed and no later call of the driver raised into the caller
ExecutedOk ==
    /\ Has("execute") /\ ~Has("fetchall!") /\ ~Has("commit!")
    /\ pkg = "dbbridge" => ~Has("close!")

\* C1 as stated: every statement that begins with CREATE or DROP is rejected
\* with a permission error, for every driver, and never executed (read of
\* the calls whose credentials are resolved).
C1_Claimed ==
    (Done /\ BeginsDDL /\ ~CredentialsFailed) =>
        /\ outcome.kind = "raise" /\ outcome.cause = "guard"
        /\ ~Has("execute") /\ ~Has("execute!")

\* C1, amended: a statement that begins with CREATE or DROP (any case, after
\* stripping) is rejected with a permission error before any connection is
\* opened, by dbbridge always and by db_bridge, once the credentials are
\* resolved, for every driver other than sqlite (any case); with the sqlite
\* driver db_bridge does not reject it.
C1_DDLRejectedExceptSqlite ==
    (BeginsDDL /\ pc # "prepare" /\ ~CredentialsFailed) =>
        IF pkg = "dbbridge" \/ ~SqliteCall
        THEN /\ pc = "done"
             /\ outcome = Raise(IF pkg = "dbbridge" THEN "Exception" ELSE "SQLPermissionError",
                                "guard")
             /\ NoDriverCall
        ELSE outcome.cause # "guard"

C1_Witness ==
    /\ Done /\ pkg = "db_bridge" /\ BeginsDDL /\ CredsDriver = dOracle
    /\ outcome.exc = "SQLPermissionError" /\ ~StartsWithCI(Stmt, wCREATE)

\* C2: an UPDATE or DELETE without WHERE (any case, after stripping) never
\* gets a bridge, is never executed and never committed by db_bridge.run_sql;
\* the call raises, and what it raises is SQLPermissionError unless resolving
\* the credentials has already failed.
C2_NoWhereRejected ==
    (pkg = "db_bridge" /\ NoWhereWrite /\ pc # "prepare") =>
        /\ pc = "done" /\ outcome.kind = "raise"
        /\ bridge = "none" /\ NoDriverCall
        /\ ~CredentialsFailed => outcome = Raise("SQLPermissionError", "guard")

C2_Witness ==
    /\ Done /\ pkg = "db_bridge" /\ NoWhereWrite /\ StartsWithCI(Stmt, wDELETE)
    /\ outcome.exc = "SQLPermissionError" /\ events = <<>>

C6_Claimed ==
    (Done /\ LeadingVerb \notin {wSELECT, wINSERT, wUPDATE, wDELETE} /\ ExecutedOk) =>
        outcome = ReturnRows("list", <<>>)

\* C6, amended: a statement that executes successfully and whose leading verb
\* is none of SELECT, INSERT, UPDATE, DELETE returns an empty list, provided
\* (in db_bridge) it produced no result set; one that produced a result set
\* (SHOW ...) makes db_bridge.run_sql return the fetched rows.
C6_OtherReturnsEmptyList ==
    (Done /\ LeadingVerb \notin {wSELECT, wINSERT, wUPDATE, wDELETE} /\ ExecutedOk) =>
        IF pkg = "dbbridge" \/ cursor.description = "None"
        THEN outcome = ReturnRows("list", <<>>)
        ELSE outcome.kind = "return" /\ outcome.type \in {"list", "tuple"}
             /\ outcome.rows = cursor.fetched.rows

C6_Witness ==
    /\ Done /\ pkg = "db_bridge" /\ LeadingVerb = wCREATE /\ ExecutedOk
    /\ Has("commit") /\ outcome = ReturnRows("list", <<>>)

\* C7: when db_creds and db_bridge_profile are both given, db_bridge.run_sql
\* raises ValueError before it loads a configuration, opens a connection or
\* executes anything.
C7_BothGivenValueError ==
    (pkg = "db_bridge" /\ args.db_creds.given = "dict" /\ args.db_bridge_profile # "None"
     /\ pc # "prepare") =>
        /\ pc = "done" /\ outcome = Raise("ValueError", "both")
        /\ events = <<>> /\ bridge = "none"

C7_Witness ==
    /\ Done /\ pkg = "db_bridge" /\ args.db_creds.given = "dict"
    /\ args.db_bridge_profile = "prod" /\ outcome.exc = "ValueError"

\* the bridge that matches creds["driver"], compared without regard to case
ExpectedBridge ==
    IF CredsDriver = NoDriverKey \/ Lower(CredsDriver) = dMysql THEN "MySQLBridge"
    ELSE IF Lower(CredsDriver) = dSqlite THEN "SQLiteBridge"
    ELSE IF Lower(CredsDriver) = dPostgres THEN "PostgresBridge"
    ELSE "unsupported"

ConnectCount == Count("connect") + Count("connect!")

\* the call has passed the credentials and the guards and has dealt with the driver
PastConnect ==
    pc \notin {"prepare", "connect"} /\ outcome.cause \notin {"both", "config", "guard"}

\* C8: a db_bridge.run_sql call never opens more than one connection; one
\* that passes the guards opens exactly one, through the bridge that matches
\* creds["driver"] (any case, mysql without the key), and for any other
\* driver raises ValueError without opening one.
C8_OneConnectionByDriver ==
    pkg = "db_bridge" =>
        /\ ConnectCount <= 1
        /\ PastConnect =>
             IF ExpectedBridge = "unsupported"
             THEN /\ pc = "done" /\ outcome = Raise("ValueError", "driver")
                  /\ ConnectCount = 0 /\ bridge = "none"
             ELSE ConnectCount = 1 /\ bridge = ExpectedBridge

C8_Witness ==
    /\ Done /\ pkg = "db_bridge" /\ args.db_creds.given = "dict"
    /\ CredsDriver = <<"P","o","s","t","g","r","e","s">>
    /\ bridge = "PostgresBridge" /\ Count("connect") = 1 /\ outcome.kind = "return"

SqlCalls == {"execute", "fetchall", "commit"}

Raising(c) == CASE c = "execute" -> "execute!" [] c = "fetchall" -> "fetchall!"
                [] c = "commit" -> "commit!"

\* C9: in db_bridge.run_sql an exception of cursor.execute, fetchall or
\* commit reaches the caller as SQLExecutionError wrapping it, the statement
\* is executed at most once, and SQLExecutionError is raised for nothing
\* else: the errors of the guards reach the caller as they are.
C9_ExecutionErrorsWrapped ==
    pkg = "db_bridge" =>
        /\ \A c \in SqlCalls :
             Has(Raising(c)) => pc \in {"close", "done"} /\ outcome = Raise("SQLExecutionError", c)
        /\ Count("execute") + Count("execute!") <= 1
        /\ outcome.exc = "SQLExecutionError" => \E c \in SqlCalls : Has(Raising(c))
        /\ outcome.cause \in {"both", "guard", "driver"} =>
             outcome.exc \in {"ValueError", "SQLPermissionError"}

C9_Witness ==
    /\ Done /\ pkg = "db_bridge" /\ Has("commit!")
    /\ outcome = Raise("SQLExecutionError", "commit") /\ Count("execute") = 1

\* ------------------------------------------------------------------------
\* Properties of get_column_values
\* ------------------------------------------------------------------------

Returned == pc = "returned"

\* the lookup matched no row: the SELECT was executed and fetchall yielded nothing
NoRowMatched == Has("execute") /\ Has("fetchall") /\ cursor.fetched.rows = <<>>


\* C10: when the lookup of db_bridge.get_column_values matches no row, it
\* raises NoRowFoundError if error_if_missing is True and returns None if it
\* is False, and the user is never prompted.
C10_MissingRow ==
    (Returned /\ pkg = "db_bridge" /\ NoRowMatched) =>
        /\ prompts = 0
        /\ lookup_outcome = IF lookup.error_if_missing
                            THEN LookupRaise("NoRowFoundError", "missing")
                            ELSE LookupReturn("None", 0, <<>>)

C10_Witness ==
    /\ Returned /\ pkg = "db_bridge" /\ NoRowMatched /\ lookup.error_if_missing
    /\ lookup_outcome.exc = "NoRowFoundError" /\ prompts = 0

\* the rows run_sql handed to get_column_values
Candidates == IF outcome.kind = "return" THEN outcome.rows ELSE <<>>

\* the value returned is taken from row r
FromRow(r) == lookup_outcome.kind = "return" => lookup_outcome.row = r

\* C11 as stated: with more than one row matched the caller is prompted
\* exactly once and the values returned come from the row chosen; with
\* exactly one row no prompt is issued and the values come from that row.
C11_Claimed ==
    Returned =>
        /\ Len(Candidates) > 1 => prompts = 1 /\ FromRow(chosen)
        /\ Len(Candidates) = 1 => prompts = 0 /\ FromRow(Candidates[1])


\* the row found: the one chosen among several, else the only one
FoundRow == IF Len(Candidates) > 1 THEN chosen ELSE Candidates[1]

KeySet(keys) == { keys[i] : i \in 1..Len(keys) }

\* C12 as stated: for a found row db_bridge.get_column_values returns, with
\* as_tuple and one column the bare value of that column, with as_tuple and
\* several columns the tuple of their values in the order asked, and without
\* as_tuple a dict whose keys are exactly the columns asked for.
C12_Claimed ==
    (Returned /\ pkg = "db_bridge" /\ Len(Candidates) > 0) =>
        /\ lookup_outcome.kind = "return"
        /\ lookup_outcome.row = FoundRow
        /\ IF lookup.as_tuple
           THEN IF Len(lookup.columns_to_return) = 1
                THEN /\ lookup_outcome.type = "value"
                     /\ lookup_outcome.keys = <<lookup.columns_to_return[1]>>
                ELSE /\ lookup_outcome.type = "tuple"
                     /\ lookup_outcome.keys = lookup.columns_to_return
           ELSE /\ lookup_outcome.type = "dict"
                /\ KeySet(lookup_outcome.keys) = KeySet(lookup.columns_to_return)

\* ------------------------------------------------------------------------
\* Properties of dbbridge.config.load_config
\* ------------------------------------------------------------------------

Loaded == pc = "loaded"

\* DB_NAME, DB_USER and DB_PASS are all set and non-empty
EnvComplete == \A v \in {env.DB_NAME, env.DB_USER, env.DB_PASS} : v \notin {Unset, ""}

\* the number a port text stands for, 3306 when there is none, -1 when it is
\* no number
PortNumber(n) ==
    IF ~n.set THEN 3306
    ELSE IF n.text = t3307 THEN 3307
    ELSE IF n.text = t5433 THEN 5433
    ELSE -1

\* the section named by DBBRIDGE_PROFILE, else by [DEFAULT].active, else the
\* first section of the file (Unset when there is none)
ChosenName ==
    IF env.DBBRIDGE_PROFILE \notin {Unset, ""} THEN env.DBBRIDGE_PROFILE
    ELSE IF ini.active \notin {Unset, ""} THEN ini.active
    ELSE IF ini.sections # <<>> THEN ini.sections[1].section
    ELSE Unset

ChosenSections ==
    { ini.sections[i] : i \in { j \in 1..Len(ini.sections) : ini.sections[j].section = ChosenName } }

\* the section has the options name, user and password and its port, if any, is a number
WellFormed(s) == s.name # Unset /\ s.user # Unset /\ s.password # Unset /\ PortNumber(s.port) >= 0

\* C13: dbbridge load_config takes the credentials from the environment
\* whenever DB_NAME, DB_USER and DB_PASS are all set and non-empty (host
\* localhost and port 3306 unless DB_HOST and DB_PORT are set), whatever
\* the INI file; only otherwise it reads ~/.dbbridge.cfg: RuntimeError when
\* the file is missing, when no section is named and the file has none, and
\* when the section chosen (DBBRIDGE_PROFILE, else [DEFAULT].active, else
\* the first section) is not in the file; else the host, the integer port,
\* the name (as database), the user and the password of that section. (A
\* port that is no number raises ValueError, a section without name, user or
\* password raises KeyError, and DEFAULT names a section every file has.)
C13_EnvElseIni ==
    Loaded =>
        IF EnvComplete
        THEN IF PortNumber(env.DB_PORT) >= 0
             THEN loaded = Credentials(IF env.DB_HOST = Unset THEN "localhost" ELSE env.DB_HOST,
                                       PortNumber(env.DB_PORT), env.DB_NAME, env.DB_USER,
                                       env.DB_PASS)
             ELSE loaded = LoadError("ValueError")
        ELSE IF ~ini.exists THEN loaded = LoadError("RuntimeError")
        ELSE IF ChosenName = "DEFAULT" THEN loaded = LoadError("KeyError")
        ELSE IF ChosenSections = {} THEN loaded = LoadError("RuntimeError")
        ELSE \A s \in ChosenSections :
             IF WellFormed(s)
             THEN loaded = Credentials(IF s.host # Unset THEN s.host
                                       ELSE IF ini.host # Unset THEN ini.host ELSE "localhost",
                                       PortNumber(s.port), s.name, s.user, s.password)
             ELSE loaded.kind = "raise" /\ loaded.exc \in {"ValueError", "KeyError"}

\* the environment lacks DB_PASS, no section is named, and the credentials
\* are those of the first section of the file, dev, the port 3306
C13_Witness ==
    /\ Loaded /\ env.DB_NAME = "env_name" /\ env.DB_USER = "env_user" /\ env.DB_PASS = ""
    /\ env.DBBRIDGE_PROFILE = Unset /\ ini.exists /\ ini.active = ""
    /\ Len(ini.sections) = 2
    /\ loaded = Credentials("localhost", 3306, "dev_name", "dev_user", "dev_pass")

\* ------------------------------------------------------------------------
\* Properties of run_sql: closing, committing, guarding, verbosity, placeholders
\* ------------------------------------------------------------------------

\* the bridge of the call was constructed: its connection is open
BridgeConstructed == Has("connect")

CloseCount == Count("close") + Count("close!")

\* no call on the cursor or the connection comes after position i of the trace
LastDriverCall(i) ==
    \A j \in (i + 1)..Len(events) :
        events[j] \notin {"mogrify", "mogrify!", "execute", "execute!", "fetchall", "fetchall!",
                          "commit", "commit!"}

\* C14 as stated: in every db_bridge.run_sql call in which a bridge was
\* constructed, bridge.close() is called exactly once, after the last cursor
\* operation of the call, whether the call returns or raises.
C14_Claimed ==
    (Done /\ pkg = "db_bridge" /\ BridgeConstructed) =>
        /\ CloseCount = 1
        /\ \A i \in 1..Len(events) : events[i] \in {"close", "close!"} => LastDriverCall(i)

\* position of the first occurrence of e in the trace, 0 when there is none
Position(e) == IF Has(e) THEN CHOOSE i \in 1..Len(events) :
                                  events[i] = e /\ \A j \in 1..(i - 1) : events[j] # e
               ELSE 0

\* C15 as stated: every statement whose leading verb is INSERT, UPDATE or
\* DELETE and that db_bridge.run_sql executes successfully is committed
\* exactly once, after cursor.execute and before the connection is closed; a
\* statement whose execution raises is never committed.
C15_Claimed ==
    (Done /\ pkg = "db_bridge") =>
        /\ (LeadingVerb \in {wINSERT, wUPDATE, wDELETE} /\ ExecutedOk) =>
              /\ Count("commit") = 1
              /\ Position("execute") < Position("commit")
              /\ CloseCount = 1
              /\ \A i \in 1..Len(events) : events[i] \in {"close", "close!"} => Position("commit") < i
        /\ Has("execute!") => ~Has("commit") /\ ~Has("commit!")

\* C16 as stated: a statement that db_bridge.run_sql classifies as UPDATE or
\* DELETE (the classification that skips leading comment lines) and whose
\* text lacks WHERE never reaches cursor.execute.
C16_Claimed ==
    (pkg = "db_bridge" /\ CmdOf(Stmt) \in {wUPDATE, wDELETE} /\ ~ContainsCI(Stmt, wWHERE)) =>
        ~Has("execute") /\ ~Has("execute!")

\* the call has reached cursor.execute: quiet has its final value by then
Executing == Has("execute") \/ Has("execute!")

\* C17 as stated: quiet left None becomes False exactly when the stripped
\* statement begins with UPDATE, DELETE or INSERT (any case) and True
\* otherwise; quiet given is used unchanged, and with quiet=True neither the
\* SQL text nor the rows-affected message is emitted.
C17_Claimed ==
    /\ Executing =>
          quiet_now = IF args.quiet = "None"
                      THEN ~(\E w \in {wUPDATE, wDELETE, wINSERT} : StartsWithCI(Stmt, w))
                      ELSE args.quiet = "True"
    /\ args.quiet = "True" =>
          \A e \in {"info_sql", "log_sql", "info_rows", "log_rows"} : ~Has(e)

\* C18 as stated: in db_bridge.run_sql, with the sqlite driver and params
\* given (not None) the text passed to cursor.execute is the stripped
\* statement with every %s replaced by ?; with the mysql and postgres
\* drivers the text passed has its %s unchanged.
C18_Claimed ==
    (pkg = "db_bridge" /\ Executing) =>
        /\ (driver = dSqlite /\ args.params # "None") =>
              exec_sql = Replace(Stmt, cPct, cQ) /\ ~ContainsCI(exec_sql, cPct)
        /\ driver \in {dMysql, dPostgres} => exec_sql = raw_sql

\* C18: in db_bridge.run_sql, with the sqlite driver and params given and not
\* empty the text passed to cursor.execute is the stripped statement with
\* every %s replaced by ?; with the sqlite driver and params None or empty,
\* and with the mysql and postgres drivers, the text passed is the statement
\* as prepared, its %s unchanged.
C18_PlaceholdersSwappedForSqlite ==
    (pkg = "db_bridge" /\ Executing) =>
        /\ (driver = dSqlite /\ args.params = "values") =>
              exec_sql = Replace(Stmt, cPct, cQ) /\ ~ContainsCI(exec_sql, cPct)
        /\ (driver = dSqlite /\ args.params = "empty") => exec_sql = Stmt
        /\ (driver # dSqlite \/ args.params # "values") => exec_sql = raw_sql
        /\ driver \in {dSqlite, dMysql, dPostgres}

C18_Witness ==
    /\ pkg = "db_bridge" /\ Has("execute") /\ driver = dSqlite /\ args.params = "values"
    /\ ContainsCI(Stmt, cPct) /\ ContainsCI(exec_sql, cQ) /\ ~ContainsCI(exec_sql, cPct)

====
